---- MODULE Spec2Model ----
(***************************************************************************)
(* Model of marvin's AIModel (src/src/marvin/components/ai_model.py):      *)
(* prompt assembly (as_prompt, _messages, _functions, _function_call,      *)
(* as_decorator), the single extraction call made by the constructor, and  *)
(* the batch mapper (amap / map) on top of asyncio.gather.                 *)
(*                                                                         *)
(* Text is a sequence of atoms.  An atom is either a whitespace character  *)
(* (" " or "\n") or a run of non-whitespace text; str.strip() removes the  *)
(* whitespace atoms at both ends.                                          *)
(***************************************************************************)
EXTENDS Naturals, Sequences, FiniteSets

VARIABLES
    cls,          \* the schema class a call is made on
    entry,        \* "none" | "as_prompt" | "init": the operation the caller invoked
    text,         \* the call's text argument
    instructions, \* the call's instructions argument
    schemaFlag,   \* the call's __schema__ argument
    stage,        \* stage of the extraction call made by the constructor
    response,     \* what as_prompt returned (or the error it raised)
    k,            \* what call() returned to the constructor
    nRequests,    \* requests handed to the completion backend by this call
    bmode,        \* "none" | "amap" | "map": the batch entry point invoked
    map_args,     \* positional argument sequences of the batch
    map_kwargs,   \* keyword argument sequences of the batch (a sequence of them)
    tasks,        \* the acall coroutines / tasks of the batch, by index
    outer,        \* the future asyncio.gather returned
    doneOrder,    \* indices of the tasks in the order they completed
    nfinished,    \* how many of the tasks gather's done-callback has seen
    pc,           \* position of the amap coroutine
    ret,          \* what amap / map delivered to the caller
    loop          \* "running" | "closed": the event loop the batch runs on

promptVars == <<cls, entry, text, instructions, schemaFlag, stage, response, k, nRequests>>
batchVars == <<bmode, map_args, map_kwargs, tasks, outer, doneOrder, nfinished, pc, ret, loop>>
vars == <<cls, entry, text, instructions, schemaFlag, stage, response, k, nRequests,
          bmode, map_args, map_kwargs, tasks, outer, doneOrder, nfinished, pc, ret, loop>>

----------------------------------------------------------------------------
(* Python values that reach a template: None, a str, a callable, the       *)
(* function registry, or no binding at all (jinja2's Undefined).           *)

None == [tag |-> "none", s |-> <<>>]

Undefined == [tag |-> "undefined", s |-> <<>>]

Str(s) == [tag |-> "str", s |-> s]

Whitespace == {" ", "\n"}

\* bool(v) in Python, and the truth of v in a jinja2 {% if v %} test
Truthy(v) == \/ v.tag = "fn"
             \/ v.tag = "registry"
             \/ (v.tag = "str" /\ v.s # <<>>)

\* a or b
Or(a, b) == IF Truthy(a) THEN a ELSE b

\* what {{ v }} prints: jinja2's default Undefined prints as the empty string
Printed(v) == CASE v.tag = "undefined" -> <<>>
                [] v.tag = "none" -> <<"None">>
                [] v.tag = "str" -> v.s
                [] OTHER -> <<"<object>">>

RECURSIVE LStrip(_)
LStrip(s) == IF s # <<>> /\ Head(s) \in Whitespace THEN LStrip(Tail(s)) ELSE s

RECURSIVE RStrip(_)
RStrip(s) == IF s # <<>> /\ s[Len(s)] \in Whitespace
             THEN RStrip(SubSeq(s, 1, Len(s) - 1))
             ELSE s

\* str.strip()
Strip(s) == RStrip(LStrip(s))

----------------------------------------------------------------------------
(* Templates.  A template is a sequence of tokens; a token under an        *)
(* {% if x %} ... {% endif %} carries x as its guard ("" when unguarded).  *)
(*   lit  : literal text                                                   *)
(*   var  : {{ name }}                                                     *)
(*   attr : {{ name[0].__name__ }}, an attribute looked up on name         *)
(*   ctx  : {% for (arg, value) in context_fn(text).items() %} ...         *)

Lit(g, s) == [guard |-> g, kind |-> "lit", name |-> "", lit |-> s]

Var(g, n) == [guard |-> g, kind |-> "var", name |-> n, lit |-> <<>>]

Attr(g, n) == [guard |-> g, kind |-> "attr", name |-> n, lit |-> <<>>]

Ctx(g) == [guard |-> g, kind |-> "ctx", name |-> "context_fn", lit |-> <<>>]

default_context == [tag |-> "fn", s |-> <<"The current date is", "<now>">>]

system_extract_prompt ==
    << Lit("", <<"The user will provide context as text that you need to parse into a structured form.",
                 "\n", "- To validate your response, you must call the">>),
       Attr("", "functions"),
       Lit("", <<"function.", "\n", "- Use the provided text to extract or infer any parameters needed by">>),
       Attr("", "functions"),
       Lit("", <<", including any missing data.", "\n", " ", "\n", "\n">>),
       Lit("instructions", <<"The user has provided some additional requirements for this task:", " ">>),
       Var("instructions", "instructions"),
       Lit("instructions", <<" ", "\n">>),
       Lit("", <<"\n", " ", "\n", "\n">>),
       Ctx("context_fn"),
       Lit("context_fn", <<"\n">>) >>

system_generate_prompt ==
    << Lit("", <<"The user will provide context as text that you need to parse to generate synthetic data.",
                 "\n", "- To validate your response, you must call the">>),
       Attr("", "functions"),
       Lit("", <<"function.", "\n", "- Use the provided text to generate or invent any parameters needed by">>),
       Attr("", "functions"),
       Lit("", <<", including any missing data.", "\n", "- It is okay to make up representative data.", "\n">>),
       Lit("instructions", <<"You have been provided instructions on completing your task:", " ">>),
       Var("instructions", "instructions"),
       Lit("context_fn", <<"You have been provided the following context to perform your task:", "\n">>),
       Ctx("context_fn") >>

user_prompt == << Lit("", <<"The text to parse:", " ">>), Var("", "text") >>

\* what kwargs.get(role, "") yields when the role is not bound: Template("")
EmptyTemplate == << >>

Tpl(t) == [tag |-> "str", s |-> t]

\* the outcome of a rendering: text, or the exception jinja2 raised
Ok(s) == [ok |-> TRUE, s |-> s]

Error == [ok |-> FALSE, s |-> <<>>]

\* one token rendered in context ctx (a function from names to values)
RenderToken(tok, ctx) ==
    IF tok.guard # "" /\ ~Truthy(ctx[tok.guard]) THEN Ok(<<>>)
    ELSE CASE tok.kind = "lit" -> Ok(tok.lit)
           [] tok.kind = "var" -> Ok(Printed(ctx[tok.name]))
           [] tok.kind = "attr" ->
                 IF ctx[tok.name].tag = "registry" THEN Ok(ctx[tok.name].s) ELSE Error
           [] tok.kind = "ctx" ->
                 IF ctx[tok.name].tag = "fn"
                 THEN Ok(<<ctx[tok.name].s[1], ":", " ", ctx[tok.name].s[2]>>)
                 ELSE Error

RECURSIVE RenderTokens(_, _)
RenderTokens(toks, ctx) ==
    IF toks = <<>> THEN Ok(<<>>)
    ELSE LET h == RenderToken(Head(toks), ctx)
             t == RenderTokens(Tail(toks), ctx)
         IN IF h.ok /\ t.ok THEN Ok(h.s \o t.s) ELSE Error

----------------------------------------------------------------------------
(* Schema classes.  A class is either a direct subclass of AIModel or the  *)
(* subclass as_decorator builds, whose _messages and _functions are        *)
(* functools.partial objects carrying the configuration.                   *)

fixed_directive ==
    "You MUST always call this function before responding to the user to ensure that your final response is formatted correctly and complies with the output format requirements."

\* class Location(AIModel): ...   (no decorator, nothing bound)
DirectSubclass(base_model) ==
    [name |-> base_model, decorated |-> FALSE, system |-> Undefined, user |-> Undefined,
     instructions |-> Undefined, context_fn |-> Undefined]

\* ai_model(base_model, system=, user=, instructions=, context_fn=, mode=)
as_decorator(base_model, system, user, instr, context_fn, mode) ==
    [name |-> base_model,
     decorated |-> TRUE,
     system |-> Or(system, IF mode = "extract" THEN Tpl(system_extract_prompt)
                                               ELSE Tpl(system_generate_prompt)),
     user |-> Or(user, Tpl(user_prompt)),
     instructions |-> instr,
     context_fn |-> context_fn]

\* Function.from_model(type("format_response", (cls,), ...), name=, description=)
from_model(typeName, name, description, c) ==
    [__name__ |-> typeName, name |-> name, description |-> description, model |-> c.name]

\* FunctionRegistry.schema(): one entry per registered function
schema(registry) ==
    [i \in 1..Len(registry) |->
        [name |-> registry[i].name, description |-> registry[i].description,
         parameters |-> registry[i].model]]

\* AIModel._functions(cls, instructions=None)
FunctionsWith(c, instr) ==
    << from_model("format_response", "format_response",
                  Strip(<<fixed_directive, "\n", "\n">> \o Or(instr, Str(<<>>)).s), c) >>

\* cls._functions(...) as as_prompt and _function_call invoke it:
\* instructions come from the partial as_decorator bound, or default to None
_functions(c) == FunctionsWith(c, IF c.decorated THEN c.instructions ELSE None)

\* mutant: the directive names the schema class instead of the registered function
FunctionCallOfClass(c, sch) == [name |-> c.name]

\* AIModel._function_call(cls, __schema__=True)
_function_call(c, sch) ==
    IF sch THEN [name |-> schema(_functions(c))[1].name]
    ELSE [name |-> _functions(c)[1].__name__]

\* the keyword arguments _messages receives: those of the partial (when the
\* class is decorated) overridden by those of the call
MessagesKwargs(c, txt, functions, instr) ==
    [n \in {"text", "functions", "instructions", "system", "user", "context_fn", "missing"} |->
        CASE n = "text" -> txt
          [] n = "functions" -> [tag |-> "registry", s |-> <<functions[1].__name__>>]
          [] n = "instructions" -> IF Truthy(instr) THEN instr ELSE c.instructions
          [] n = "system" -> c.system
          [] n = "user" -> c.user
          [] n = "context_fn" -> c.context_fn
          [] OTHER -> Undefined]

\* Template(kwargs.get(role, "")).render(defaults=defaults, kwargs...).strip()
RenderRole(role, kwargs) ==
    LET t == IF kwargs[role].tag = "str" THEN kwargs[role].s ELSE EmptyTemplate
        r == RenderTokens(t, kwargs)
    IN IF r.ok THEN Ok(Strip(r.s)) ELSE Error

\* AIModel._messages(cls, defaults=None, kwargs...)
_messages(kwargs) ==
    LET sys == RenderRole("system", kwargs)
        usr == RenderRole("user", kwargs)
    IN IF sys.ok /\ usr.ok
       THEN [ok |-> TRUE,
             list |-> << [role |-> "system", content |-> sys.s],
                         [role |-> "user", content |-> usr.s] >>]
       ELSE [ok |-> FALSE, list |-> <<>>]

NoResponse == [status |-> "none", functions |-> <<>>, function_call |-> [name |-> ""],
               messages |-> <<>>]

Raised == [status |-> "error", functions |-> <<>>, function_call |-> [name |-> ""],
           messages |-> <<>>]

\* AIModel.as_prompt(cls, text=None, __schema__=True, instructions=None)
as_prompt(c, txt, sch, instr) ==
    LET functions == _functions(c)
        function_call == _function_call(c, sch)
        messages == _messages(MessagesKwargs(c, txt, functions, instr))
    IN IF ~messages.ok THEN Raised
       ELSE [status |-> "ok",
             functions |-> IF sch THEN schema(functions) ELSE functions,
             function_call |-> function_call,
             messages |-> messages.list]

----------------------------------------------------------------------------
(* Inputs of the prompt and single-call operations.                        *)

Texts == {None, Str(<<>>), Str(<<"windy", " ", "city">>)}

Instructions == {None, Str(<<"Answer", " ", "tersely.">>), Str(<<"Use", " ", "ISO", " ", "codes.">>)}

\* system= arguments: absent, blank, one printing an unbound variable, one
\* reading an attribute of an unbound variable
SystemTemplates ==
    {None,
     Tpl(<<Lit("", <<" ", "\n">>)>>),
     Tpl(<<Lit("", <<"Extract", " ", "the", " ">>), Var("", "missing"), Lit("", <<" ", "fields.">>)>>),
     Tpl(<<Lit("", <<"Call", " ">>), Attr("", "missing")>>)}

\* user= arguments: absent, or the bare text
UserTemplates == {None, Tpl(<<Var("", "text")>>)}

ContextFns == {None, default_context}

Modes == {"extract", "generate"}

NoClass == [name |-> "", decorated |-> FALSE, system |-> Undefined, user |-> Undefined,
            instructions |-> Undefined, context_fn |-> Undefined]

NoK == [tag |-> "none", valid |-> FALSE]

InitPrompt ==
    /\ cls = NoClass
    /\ entry = "none"
    /\ text = None
    /\ instructions = None
    /\ schemaFlag = TRUE
    /\ stage = "NONE"
    /\ response = NoResponse
    /\ k = NoK
    /\ nRequests = 0

InitBatchIdle ==
    /\ bmode = "none"
    /\ map_args = <<>>
    /\ map_kwargs = <<>>
    /\ tasks = <<>>
    /\ outer = [state |-> "none", results |-> <<>>]
    /\ doneOrder = <<>>
    /\ nfinished = 0
    /\ pc = "idle"
    /\ ret = [kind |-> "none", list |-> <<>>]
    /\ loop = "running"

Init == InitPrompt /\ InitBatchIdle

\* @ai_model(...) class Location(BaseModel)
Decorate ==
    /\ cls = NoClass
    /\ \E sys \in SystemTemplates, usr \in UserTemplates, i \in Instructions,
          f \in ContextFns, m \in Modes :
          cls' = as_decorator("Location", sys, usr, i, f, m)
    /\ UNCHANGED <<entry, text, instructions, schemaFlag, stage, response, k, nRequests>>
    /\ UNCHANGED batchVars

\* class Location(AIModel)
Subclass ==
    /\ cls = NoClass
    /\ cls' = DirectSubclass("Location")
    /\ UNCHANGED <<entry, text, instructions, schemaFlag, stage, response, k, nRequests>>
    /\ UNCHANGED batchVars

\* Location.as_prompt(text, __schema__=..., instructions=...) called directly
AsPrompt ==
    /\ cls # NoClass
    /\ entry \in {"none", "as_prompt"}
    /\ \E t \in Texts, i \in Instructions, sch \in BOOLEAN :
          /\ text' = t
          /\ instructions' = i
          /\ schemaFlag' = sch
          /\ response' = as_prompt(cls, t, sch, i)
    /\ entry' = "as_prompt"
    /\ UNCHANGED <<cls, stage, k, nRequests>>
    /\ UNCHANGED batchVars

\* Location(text, instructions_=...): AIModel.__init__ begins
New ==
    /\ cls # NoClass
    /\ entry = "none"
    /\ \E t \in Texts, i \in Instructions :
          /\ text' = t
          /\ instructions' = i
    /\ entry' = "init"
    /\ schemaFlag' = FALSE
    /\ stage' = "PENDING"
    /\ UNCHANGED <<cls, response, k, nRequests>>
    /\ UNCHANGED batchVars

\* to_chat_completion: ChatCompletion(cls.as_prompt(text, __schema__=False, ...))
ToChatCompletion ==
    /\ entry = "init"
    /\ stage = "PENDING"
    /\ Truthy(text)
    /\ LET r == as_prompt(cls, text, FALSE, instructions)
       IN /\ response' = r
          /\ stage' = IF r.status = "ok" THEN "RENDERED" ELSE "FAILED"
    /\ UNCHANGED <<cls, entry, text, instructions, schemaFlag, k, nRequests>>
    /\ UNCHANGED batchVars

\* mutant: a failed request is sent again
CreateAgain ==
    /\ entry = "init"
    /\ \/ stage = "RENDERED"
       \/ stage = "FAILED" /\ nRequests = 1
    /\ stage' = "REQUESTED"
    /\ nRequests' = nRequests + 1
    /\ UNCHANGED <<cls, entry, text, instructions, schemaFlag, response, k>>
    /\ UNCHANGED batchVars

\* create: cls.to_chat_completion(...).create() hands the request to the backend
Create ==
    /\ entry = "init"
    /\ stage = "RENDERED"
    /\ stage' = "REQUESTED"
    /\ nRequests' = nRequests + 1
    /\ UNCHANGED <<cls, entry, text, instructions, schemaFlag, response, k>>
    /\ UNCHANGED batchVars

\* the backend answers, or its error propagates out of create()
BackendReturns ==
    /\ entry = "init"
    /\ stage = "REQUESTED"
    /\ \E answered \in BOOLEAN : stage' = IF answered THEN "RESPONDED" ELSE "FAILED"
    /\ UNCHANGED <<cls, entry, text, instructions, schemaFlag, response, k, nRequests>>
    /\ UNCHANGED batchVars

\* completion.call_function(as_message=False): the arguments of the function
\* call as a plain mapping, or an error when the response holds no function call
call_function(present, valid) ==
    IF present THEN [tag |-> "mapping", valid |-> valid] ELSE [tag |-> "error", valid |-> FALSE]

\* call: completion = cls.create(...); return completion.call_function(as_message=False)
Call ==
    /\ entry = "init"
    /\ stage = "RESPONDED"
    /\ k = NoK
    /\ \E present \in BOOLEAN, valid \in BOOLEAN :
          LET r == call_function(present, valid)
          IN /\ k' = r
             /\ stage' = IF r.tag = "error" THEN "FAILED" ELSE "RESPONDED"
    /\ UNCHANGED <<cls, entry, text, instructions, schemaFlag, response, nRequests>>
    /\ UNCHANGED batchVars

\* super().__init__(kwargs...): pydantic validates the fields and builds the
\* instance, or raises a ValidationError
Materialize(m) ==
    IF m.valid THEN [tag |-> "instance", valid |-> TRUE] ELSE [tag |-> "error", valid |-> FALSE]

\* kwargs.update(k); super().__init__(kwargs...)
Construct ==
    /\ entry = "init"
    /\ \/ /\ stage = "RESPONDED"
          /\ k.tag = "mapping"
          /\ k' = Materialize(k)
       \/ /\ stage = "PENDING"
          /\ ~Truthy(text)
          /\ \E valid \in BOOLEAN : k' = Materialize([tag |-> "mapping", valid |-> valid])
    /\ stage' = IF k'.tag = "instance" THEN "VALIDATED" ELSE "FAILED"
    /\ UNCHANGED <<cls, entry, text, instructions, schemaFlag, response, nRequests>>
    /\ UNCHANGED batchVars

Next ==
    \/ Decorate
    \/ Subclass
    \/ AsPrompt
    \/ New
    \/ ToChatCompletion
    \/ Create
    \/ BackendReturns
    \/ Call
    \/ Construct

Spec == Init /\ [][Next]_vars

----------------------------------------------------------------------------
(* Properties of the single extraction call and of the assembled request.  *)

StageEdges ==
    { <<"NONE", "PENDING">>, <<"PENDING", "RENDERED">>, <<"PENDING", "FAILED">>,
      <<"RENDERED", "REQUESTED">>, <<"REQUESTED", "RESPONDED">>, <<"REQUESTED", "FAILED">>,
      <<"RESPONDED", "VALIDATED">>, <<"RESPONDED", "FAILED">> }

Terminal == {"VALIDATED", "FAILED"}

EntryName(f, sch) == IF sch THEN f.name ELSE f.__name__

\* the function name a rendered system message tells the model to call
NamedInSystem(content) ==
    { content[i + 1] : i \in { j \in 1..(Len(content) - 1) :
          content[j] = "- To validate your response, you must call the" } }

\* C10: every request as_prompt assembles holds exactly one function, the
\* forced function_call names that function, and so does the system message
\* of the built-in extract and generate prompts.
ForcedCallInvariant ==
    response.status = "ok" =>
        /\ Len(response.functions) = 1
        /\ response.function_call.name = EntryName(response.functions[1], schemaFlag)
        /\ \A n \in NamedInSystem(response.messages[1].content) :
              n = response.function_call.name

ForcedCallWitness ==
    /\ response.status = "ok"
    /\ ~schemaFlag
    /\ cls.system = Tpl(system_generate_prompt)
    /\ NamedInSystem(response.messages[1].content) # {}

\* C7: as_prompt yields two messages, system then user, each with non-empty
\* content that has no leading or trailing whitespace.
MessagesNonEmptyTrimmed ==
    response.status = "ok" =>
        /\ Len(response.messages) = 2
        /\ response.messages[1].role = "system"
        /\ response.messages[2].role = "user"
        /\ \A i \in 1..2 :
              /\ response.messages[i].content # <<>>
              /\ Strip(response.messages[i].content) = response.messages[i].content

\* the instructions the system message of the current call was rendered with
CallInstructions == IF Truthy(instructions) THEN instructions ELSE cls.instructions

\* C8: when the caller supplied instructions (at configuration time or with
\* the call), the function description of the request is the fixed directive
\* followed by those instructions.
InstructionsReachDescription ==
    (response.status = "ok" /\ Truthy(CallInstructions)) =>
        response.functions[1].description =
            Strip(<<fixed_directive, "\n", "\n">> \o CallInstructions.s)

\* a template names a variable the rendering context does not bind
ReferencesUndefined(t, kwargs) ==
    \E i \in 1..Len(t) :
        \/ t[i].name # "" /\ kwargs[t[i].name].tag = "undefined"
        \/ t[i].guard # "" /\ kwargs[t[i].guard].tag = "undefined"

\* the call's rendering has run
RenderingRan == response.status # "none"

\* C9: a system or user template that references an undefined variable makes
\* rendering fail: no request is assembled and none reaches the backend.
TemplateErrorsSurface ==
    (/\ RenderingRan
     /\ \E role \in {"system", "user"} :
           /\ cls[role].tag = "str"
           /\ ReferencesUndefined(cls[role].s,
                                  MessagesKwargs(cls, text, _functions(cls), instructions)))
    => (response.status = "error" /\ nRequests = 0)

----------------------------------------------------------------------------
(* The batch mapper: amap builds one acall coroutine per zipped index and  *)
(* awaits asyncio.gather of the tasks; map runs amap through run_sync.          *)

MaxLen == 3

MaxPos == 1

MaxKw == 1

KwNames == <<"text", "instructions", "context">>

Min(a, b) == IF a <= b THEN a ELSE b

RECURSIVE MinLen(_)
MinLen(seqs) ==
    IF Len(seqs) = 1 THEN Len(seqs[1]) ELSE Min(Len(seqs[1]), MinLen(Tail(seqs)))

\* zip over the sequences: zip() of no sequence yields nothing
Zip(seqs) ==
    IF seqs = <<>> THEN <<>>
    ELSE [i \in 1..MinLen(seqs) |-> [j \in 1..Len(seqs) |-> seqs[j][i]]]

\* list(zip(a, b))
Zip2(a, b) == [i \in 1..Min(Len(a), Len(b)) |-> <<a[i], b[i]>>]

\* map_kwargs.values()
Values(kw) == [j \in 1..Len(kw) |-> kw[j].values]

\* {k: v for k, v in zip(map_kwargs.keys(), kw)}
KwDict(kw, vals) == [j \in 1..Min(Len(kw), Len(vals)) |-> [key |-> kw[j].key, value |-> vals[j]]]

\* what acall returns: the value call_function extracted from the backend's
\* answer to the request made for the task's arguments
AnswerTo(t, r) == [tag |-> r.tag, valid |-> r.valid, args |-> t.args, kwargs |-> t.kwargs]

\* cls.acall(a..., kw...): a coroutine object, not yet running
Coroutine(a, kw) == [args |-> a, kwargs |-> kw, state |-> "PENDING",
                     result |-> [tag |-> "none", valid |-> FALSE]]

\* the list `tasks` amap builds from map_args and map_kwargs
BuildTasks(args, kw) ==
    IF kw = <<>>
    THEN [i \in 1..Len(Zip(args)) |-> Coroutine(Zip(args)[i], <<>>)]
    ELSE LET pairs == Zip2(Zip(args), Zip(Values(kw)))
         IN [i \in 1..Len(pairs) |-> Coroutine(pairs[i][1], KwDict(kw, pairs[i][2]))]

\* the element at index i of the j-th positional (kind "pos") or keyword
\* (kind "kw") argument sequence of a batch
Item(kind, j, i) == [kind |-> kind, seq |-> j, idx |-> i]

\* the batches a caller can pass: up to MaxPos positional sequences, all of
\* one length up to MaxLen, and up to MaxKw keyword sequences, all of one
\* length up to MaxLen (the two lengths may differ)
ArgSeqs(kind, n) ==
    { [j \in 1..n |-> [i \in 1..len |-> Item(kind, j, i)]] : len \in 0..MaxLen }

PositionalBatches == UNION { ArgSeqs("pos", n) : n \in 0..MaxPos }

KeywordBatches ==
    UNION { { [j \in 1..n |-> [key |-> KwNames[j], values |-> vs[j]]] : vs \in ArgSeqs("kw", n) }
            : n \in 0..MaxKw }

Started == \A i \in 1..Len(tasks) : tasks[i].state # "PENDING"

Finished(t) == t.state \in {"DONE", "FAILED", "CANCELLED"}

NoReturn == [kind |-> "none", list |-> <<>>]

\* mutant: gather lists the results in the order the calls completed
GatherResultsByCompletion(ts, order) == [i \in 1..Len(order) |-> ts[order[i]].result]

\* asyncio.gather's result: the children's results, in the order of the children
GatherResults(ts, order) == [i \in 1..Len(ts) |-> ts[i].result]

\* amap up to its await: the coroutines are built and
\* gather wraps each in a task; gather of nothing is already resolved with []
Enter(mode, args, kw) ==
    /\ bmode = "none"
    /\ bmode' = mode
    /\ map_args' = args
    /\ map_kwargs' = kw
    /\ tasks' = BuildTasks(args, kw)
    /\ outer' = [state |-> IF BuildTasks(args, kw) = <<>> THEN "result" ELSE "pending",
                  results |-> <<>>]
    /\ doneOrder' = <<>>
    /\ nfinished' = 0
    /\ pc' = "awaiting"
    /\ ret' = NoReturn
    /\ loop' = "running"
    /\ UNCHANGED promptVars

\* await Location.amap(...) on the caller's running event loop
Amap == \E args \in PositionalBatches, kw \in KeywordBatches : Enter("amap", args, kw)

\* Location.map(...): run_sync(cls.amap(...))
Map == \E args \in PositionalBatches, kw \in KeywordBatches : Enter("map", args, kw)

\* a task's first step, in the order gather scheduled them: acall -> acreate ->
\* to_chat_completion renders the request and suspends on the backend, or the
\* rendering raises
TaskStart ==
    \E i \in 1..Len(tasks) :
        /\ loop = "running"
        /\ tasks[i].state = "PENDING"
        /\ \A j \in 1..(i - 1) : tasks[j].state # "PENDING"
        /\ \E rendered \in BOOLEAN :
              IF rendered
              THEN /\ tasks' = [tasks EXCEPT ![i].state = "REQUESTED"]
                   /\ doneOrder' = doneOrder
              ELSE /\ tasks' = [tasks EXCEPT ![i].state = "FAILED"]
                   /\ doneOrder' = Append(doneOrder, i)
        /\ UNCHANGED <<bmode, map_args, map_kwargs, outer, nfinished, pc, ret, loop>>
        /\ UNCHANGED promptVars

\* acall resumes: the backend answered and call_function(as_message=False)
\* returns, or the backend's or call_function's error ends the task
TaskResume ==
    \E i \in 1..Len(tasks) :
        /\ loop = "running"
        /\ tasks[i].state = "REQUESTED"
        /\ \E answered \in BOOLEAN, present \in BOOLEAN, valid \in BOOLEAN :
              LET r == call_function(present, valid)
              IN IF answered /\ r.tag # "error"
                 THEN tasks' = [tasks EXCEPT ![i].state = "DONE",
                                             ![i].result = AnswerTo(tasks[i], r)]
                 ELSE tasks' = [tasks EXCEPT ![i].state = "FAILED"]
        /\ doneOrder' = Append(doneOrder, i)
        /\ UNCHANGED <<bmode, map_args, map_kwargs, outer, nfinished, pc, ret, loop>>
        /\ UNCHANGED promptVars

\* mutant: gather as with return_exceptions=True, a failure is one more result
GatherCallbackKeepingErrors ==
    /\ loop = "running"
    /\ Started
    /\ nfinished < Len(doneOrder)
    /\ nfinished' = nfinished + 1
    /\ outer' = IF outer.state = "pending" /\ nfinished + 1 = Len(tasks)
                THEN [state |-> "result", results |-> GatherResults(tasks, doneOrder)]
                ELSE outer
    /\ UNCHANGED <<bmode, map_args, map_kwargs, tasks, doneOrder, pc, ret, loop>>
    /\ UNCHANGED promptVars

\* gather's done-callback for the next completed task: the first failure
\* resolves the outer future with that exception, the last completion of an
\* all-successful batch resolves it with the list of results
GatherCallback ==
    /\ loop = "running"
    /\ Started
    /\ nfinished < Len(doneOrder)
    /\ nfinished' = nfinished + 1
    /\ LET i == doneOrder[nfinished + 1]
       IN outer' = CASE outer.state # "pending" -> outer
                     [] tasks[i].state # "DONE" -> [state |-> "exception", results |-> <<>>]
                     [] nfinished + 1 = Len(tasks) ->
                           [state |-> "result", results |-> GatherResults(tasks, doneOrder)]
                     [] OTHER -> outer
    /\ UNCHANGED <<bmode, map_args, map_kwargs, tasks, doneOrder, pc, ret, loop>>
    /\ UNCHANGED promptVars

\* `return await asyncio.gather(...)` resumes: amap returns the list or raises
AmapResume ==
    /\ loop = "running"
    /\ pc = "awaiting"
    /\ Started
    /\ outer.state \in {"result", "exception"}
    /\ pc' = IF outer.state = "result" THEN "returned" ELSE "raised"
    /\ ret' = IF outer.state = "result"
              THEN [kind |-> "result", list |-> outer.results]
              ELSE [kind |-> "error", list |-> <<>>]
    /\ UNCHANGED <<bmode, map_args, map_kwargs, tasks, outer, doneOrder, nfinished, loop>>
    /\ UNCHANGED promptVars

\* run_sync: the scheduling context set up for this one call ends when amap
\* does; what is still in flight is cancelled with it
RunSyncReturn ==
    /\ bmode = "map"
    /\ loop = "running"
    /\ pc \in {"returned", "raised"}
    /\ tasks' = [i \in 1..Len(tasks) |->
                    IF Finished(tasks[i]) THEN tasks[i]
                    ELSE [tasks[i] EXCEPT !.state = "CANCELLED"]]
    /\ loop' = "closed"
    /\ UNCHANGED <<bmode, map_args, map_kwargs, outer, doneOrder, nfinished, pc, ret>>
    /\ UNCHANGED promptVars

\* the batch runs on the schema of amap's docstring, Location
InitBatch ==
    /\ InitBatchIdle
    /\ cls = DirectSubclass("Location")
    /\ entry = "none"
    /\ text = None
    /\ instructions = None
    /\ schemaFlag = TRUE
    /\ stage = "NONE"
    /\ response = NoResponse
    /\ k = NoK
    /\ nRequests = 0

NextBatch ==
    \/ Amap
    \/ Map
    \/ TaskStart
    \/ TaskResume
    \/ GatherCallback
    \/ AmapResume
    \/ RunSyncReturn

SpecBatch == InitBatch /\ [][NextBatch]_vars

----------------------------------------------------------------------------
(* Properties of the batch mapper.                                         *)

\* the arguments input index i holds across the positional sequences
ArgsAt(i) == [j \in 1..Len(map_args) |-> map_args[j][i]]

\* the keyword arguments input index i holds across the keyword sequences
KwargsAt(i) == [j \in 1..Len(map_kwargs) |->
                   [key |-> map_kwargs[j].key, value |-> map_kwargs[j].values[i]]]

\* C1: whatever order the calls complete in, the list amap / map returns holds
\* at index i the result of the call made with the arguments of input index i.
BatchOrdering ==
    ret.kind = "result" =>
        /\ Len(ret.list) = Len(tasks)
        /\ \A i \in 1..Len(ret.list) :
              /\ ret.list[i].args = ArgsAt(i)
              /\ ret.list[i].kwargs = KwargsAt(i)

BatchOutOfOrderCompletion ==
    /\ ret.kind = "result"
    /\ Len(ret.list) >= 2
    /\ doneOrder[1] # 1
    /\ map_kwargs # <<>>

\* C2: once a call of the batch has failed the batch delivers no result list:
\* when amap / map ends, it ends with the error.
AllOrNothing ==
    (\E i \in 1..Len(tasks) : tasks[i].state = "FAILED") =>
        /\ ret.kind # "result"
        /\ ret.list = <<>>
        /\ pc \in {"returned", "raised"} => (pc = "raised" /\ ret.kind = "error")

BatchFailedWithFinishedSibling ==
    /\ pc = "raised"
    /\ ret.kind = "error"
    /\ Len(tasks) = 3
    /\ Cardinality({i \in 1..Len(tasks) : tasks[i].state = "FAILED"}) = 1
    /\ \E i \in 1..Len(tasks) : tasks[i].state = "DONE" /\ doneOrder[1] = i

\* every argument sequence of the batch has length n
CommonLength(n) ==
    /\ \A j \in 1..Len(map_args) : Len(map_args[j]) = n
    /\ \A j \in 1..Len(map_kwargs) : Len(map_kwargs[j].values) = n

\* C3: for argument sequences of common length n, positional, keyword or
\* both, amap starts n calls, call i with the i-th element of every sequence,
\* and a successful batch returns n results.
OneCallPerIndex ==
    \A n \in 0..(MaxLen + 1) :
        (/\ bmode # "none"
         /\ Len(map_args) + Len(map_kwargs) >= 1
         /\ CommonLength(n))
        => /\ Len(tasks) = n
           /\ \A i \in 1..Len(tasks) :
                 tasks[i].args = ArgsAt(i) /\ tasks[i].kwargs = KwargsAt(i)
           /\ ret.kind = "result" => Len(ret.list) = n

BatchElementsValidated ==
    ret.kind = "result" => \A i \in 1..Len(ret.list) : ret.list[i].tag = "instance"

====
